---- MODULE Spec2Model ----
(***************************************************************************)
(* Model of the search routes of the HK legal case search application.    *)
(* One request is followed from its arrival to its response. Every await  *)
(* of a handler is a step; the answer of the external service awaited is  *)
(* the step's input. Similarity scores are exact rationals [n, d].        *)
(* The case-detail route (SpecCase) and the search page with its stored   *)
(* history (SpecPage) are specifications of their own over the same       *)
(* variables.                                                              *)
(***************************************************************************)
EXTENDS Integers, Sequences, FiniteSets, TLC

VARIABLES
    variant,        \* which route serves the request
    pc,             \* the await the handler is at
    query, court,   \* the request body
    queryAnalysis,  \* the multi-query route's analysis
    allResults,     \* the handler's allResults (results in the basic routes)
    fused,          \* allResults as it stood when retrieval and merging ended
    finalResults,   \* the results of the response
    aiAnswer, status,
    idx,            \* position of the sub-query or keyword loop
    log,            \* what the services were asked and what they answered
    \* the case-detail route
    casePc,         \* the await the GET handler is at
    caseId,         \* the id parameter of the request
    caseStatus,     \* the status of the response
    caseChunks,     \* the chunks of the response
    caseTable,      \* the rows of case_chunks, in the order they are stored
    caseStore,      \* what the store did with the request
    \* the search page
    pagePc,         \* the await handleSearch is at
    fetched,        \* what the last call of /api/search gave
    pageQuery,      \* the text of the search box
    loading, error,
    searchHistory,  \* the page's state of that name
    localStore,     \* localStorage.searchHistory
    clock,          \* the time, counted in searches started
    pending         \* the query and history the running handleSearch closed over

searchVars == <<variant, pc, query, court, queryAnalysis, allResults, fused, finalResults,
                aiAnswer, status, idx, log>>

caseVars == <<casePc, caseId, caseStatus, caseChunks, caseTable, caseStore>>

pageVars == <<pagePc, fetched, pageQuery, loading, error, searchHistory, localStore, clock, pending>>

vars == <<searchVars, caseVars, pageVars>>

\* no request has been made of the case-detail route
CaseIdle ==
    /\ casePc = "idle" /\ caseId = "" /\ caseStatus = 0 /\ caseChunks = <<>>
    /\ caseStore = "none"

\* the page as it is mounted, with no stored history
PageIdle ==
    /\ pagePc = "idle" /\ fetched = "none"
    /\ pageQuery = "" /\ loading = FALSE /\ error = "null"
    /\ searchHistory = <<>> /\ localStore = <<>> /\ clock = 0
    /\ pending = [query |-> "", searchHistory |-> <<>>]

-----------------------------------------------------------------------------
(* Bounds of the model *)

\* longest list the vector service returns, beside the named lists below
MaxVecLen == 1

-----------------------------------------------------------------------------
(* Exact rational arithmetic for the similarity scores *)

RECURSIVE GCD(_, _)
GCD(a, b) == IF b = 0 THEN a ELSE GCD(b, a % b)

Rat(n, d) == LET g == GCD(n, d) IN [n |-> n \div g, d |-> d \div g]

RMul(r, p, q) == Rat(r.n * p, r.d * q)

RAdd(r, p, q) == Rat(r.n * q + p * r.d, r.d * q)

\* a/b < c/d, by continued fractions: no product is formed
RECURSIVE FracLess(_, _, _, _)
FracLess(a, b, c, d) ==
    LET qa == a \div b
        qc == c \div d
        ra == a % b
        rc == c % d
    IN  IF qa # qc THEN qa < qc
        ELSE IF rc = 0 THEN FALSE
        ELSE IF ra = 0 THEN TRUE
        ELSE FracLess(d, rc, b, ra)

RLess(r, s) == FracLess(r.n, r.d, s.n, s.d)

RLeq(r, s) == ~RLess(s, r)

RMin(r, s) == IF RLess(s, r) THEN s ELSE r

One == Rat(1, 1)

-----------------------------------------------------------------------------
(* The corpus behind the vector store and the lexical store *)

NPassages == 20

PassageIds == 1..NPassages

\* case_id of a chunk: cases of 5, 3, 3 and 2 chunks, and a long judgment
CaseOf(id) ==
    IF id <= 5 THEN 1 ELSE IF id <= 8 THEN 2 ELSE IF id <= 11 THEN 3 ELSE IF id <= 13 THEN 4 ELSE 5

\* more than 15 chunks are of the Court of Appeal
CourtOf(id) ==
    IF CaseOf(id) \in {1, 2, 5} THEN "hkca" ELSE IF CaseOf(id) = 3 THEN "hkcfi" ELSE "hkcfa"

\* the lower-cased words of chunk_text
TextOf(id) ==
    CASE id = 1 -> {"negligence", "duty"}
      [] id \in {2, 4} -> {"negligence"}
      [] id = 3 -> {"negligence", "damages"}
      [] id = 6 -> {"duty", "damages", "liability"}
      [] id = 9 -> {"negligence", "breach"}
      [] id = 12 -> {"contract"}
      [] OTHER -> {}

\* court of the request body: absent, "all", or one court
Courts == {"null", "all", "hkca"}

-----------------------------------------------------------------------------
(* Sequences *)

RECURSIVE Ascending(_, _)
\* the members of the set S of numbers <= n, as an ascending sequence
Ascending(S, n) ==
    IF n = 0 THEN <<>>
    ELSE IF n \in S THEN Append(Ascending(S, n - 1), n) ELSE Ascending(S, n - 1)

Take(s, n) == SubSeq(s, 1, IF Len(s) < n THEN Len(s) ELSE n)

Range(s) == {s[i] : i \in 1..Len(s)}

RECURSIVE SeqsUpTo(_, _)
SeqsUpTo(S, n) ==
    IF n = 0 THEN {<<>>}
    ELSE LET shorter == SeqsUpTo(S, n - 1)
         IN  shorter \cup {Append(s, e) : s \in {t \in shorter : Len(t) = n - 1}, e \in S}

-----------------------------------------------------------------------------
(* Requests *)

\* body.query absent, and body.query a number
Missing == "<undefined>"
NonString == "<number>"

Queries ==
    {"negligence", "duty duty", "the law", "what Negligence the damages",
     "negligence liability damages breach contract injury",
     "where is  the duty of care in tort"}

BodyQueries == Queries \cup {"", Missing, NonString}

\* the validation without the typeof test
QueryRejected_FalsyOnly(q) == q \in {"", Missing}

\* !query || typeof query !== 'string'
QueryRejected(q) == q \in {"", Missing, NonString}

\* query.split(/\s+/)
Words(q) ==
    CASE q = "negligence" -> <<"negligence">>
      [] q = "duty duty" -> <<"duty", "duty">>
      [] q = "the law" -> <<"the", "law">>
      [] q = "what Negligence the damages" -> <<"what", "Negligence", "the", "damages">>
      [] q = "negligence liability damages breach contract injury" ->
            <<"negligence", "liability", "damages", "breach", "contract", "injury">>
      [] q = "where is  the duty of care in tort" ->
            <<"where", "is", "the", "duty", "of", "care", "in", "tort">>
      [] OTHER -> <<>>

\* query.split(' ').length: two spaces in a row have an empty string between them
SpaceTokens(q) ==
    IF q = "where is  the duty of care in tort" THEN Len(Words(q)) + 1 ELSE Len(Words(q))

\* String.prototype.toLowerCase on a word
Lower(w) == IF w = "Negligence" THEN "negligence" ELSE w

LowerWords(q) == [i \in 1..Len(Words(q)) |-> Lower(Words(q)[i])]

RECURSIVE Filter(_, _)
\* the elements of s that are in the set Keep, in order
Filter(s, Keep) ==
    IF s = <<>> THEN <<>>
    ELSE IF Head(s) \in Keep THEN <<Head(s)>> \o Filter(Tail(s), Keep)
    ELSE Filter(Tail(s), Keep)

-----------------------------------------------------------------------------
(* Candidates *)

Undefined == -1

\* a SearchResult; case_id, court and chunk_text follow from id
Cand(id, sim, matched, src) ==
    [id |-> id, similarity |-> sim, matchedQueries |-> matched, source |-> src,
     relevanceScore |-> Undefined, keywordMatches |-> Undefined]

Ids(list) == {list[i].id : i \in 1..Len(list)}

HasId(list, id) == \E i \in 1..Len(list) : list[i].id = id

\* Array.prototype.find(r => r.id === id): the first such element
FindIdx(list, id) == CHOOSE i \in 1..Len(list) : list[i].id = id /\ \A j \in 1..(i - 1) : list[j].id # id

RECURSIVE InsertDesc(_, _)
\* the pair e = [key, val] put behind every pair of the sorted list whose key is not smaller
InsertDesc(sorted, e) ==
    IF sorted = <<>> THEN <<e>>
    ELSE IF RLess(Head(sorted).key, e.key) THEN <<e>> \o sorted
    ELSE <<Head(sorted)>> \o InsertDesc(Tail(sorted), e)

RECURSIVE SortPairs(_, _)
SortPairs(pairs, n) == IF n = 0 THEN <<>> ELSE InsertDesc(SortPairs(pairs, n - 1), pairs[n])

\* Array.prototype.sort((a, b) => key(b) - key(a)): descending and stable
SortDesc(list, keys) ==
    LET pairs == [i \in 1..Len(list) |-> [key |-> keys[i], val |-> list[i]]]
        sorted == SortPairs(pairs, Len(pairs))
    IN  [i \in 1..Len(list) |-> sorted[i].val]

\* results.sort((a, b) => b.similarity - a.similarity)
\* the list left in the order it came in
SortBySimilarity_AsGiven(list) == list

SortBySimilarity(list) == SortDesc(list, [i \in 1..Len(list) |-> list[i].similarity])

IsSortedBySimilarity(list) ==
    \A i \in 1..(Len(list) - 1) : RLeq(list[i + 1].similarity, list[i].similarity)

-----------------------------------------------------------------------------
(* External services *)

SimValues == {Rat(1, 2), Rat(19, 20)}

VecRow(id, sim) == [id |-> id, similarity |-> sim]

\* every chunk of the corpus, the best first: more than 10 rows, 5 of one case
LongRows == [i \in 1..NPassages |-> VecRow(i, Rat(100 - i, 100))]

\* one chunk reported twice by one answer
DupRows == <<VecRow(1, Rat(19, 20)), VecRow(1, Rat(1, 2))>>

\* a perfect match beside a chunk of the same case
TopRows == <<VecRow(2, One), VecRow(1, Rat(4, 5))>>

\* what the vector store answers to a sub-query, and to the main query
SubAnswers ==
    SeqsUpTo({VecRow(1, s) : s \in SimValues} \cup {VecRow(9, Rat(1, 2))}, MaxVecLen) \cup {DupRows}

\* a match just above every threshold of a main query
WeakRows == <<VecRow(9, Rat(21, 50))>>

VecAnswers == SubAnswers \cup {LongRows, TopRows, WeakRows}

\* the JSON the embedding service answers with, or the way the call fails
EmbedOutcomes == {"throw", "nonOK", "flat384", "nested384", "flatOther", "nestedOther", "object", "null"}

FetchOutcomes == {"throw", "nonOK", "ok"}

\* one vector retrieval as the services answer it
SemanticOutcomesOf(answers) ==
    {[embed |-> e, search |-> "none", rows |-> <<>>] :
        e \in EmbedOutcomes \ {"flat384", "nested384", "nestedOther"}}
        \cup {[embed |-> e, search |-> f, rows |-> <<>>] :
                 e \in {"flat384", "nested384", "nestedOther"}, f \in {"throw", "nonOK"}}
        \cup {[embed |-> e, search |-> "ok", rows |-> r] :
                 e \in {"flat384", "nested384"}, r \in answers}

SemanticOutcomes == SemanticOutcomesOf(VecAnswers)

SubQueryOutcomes == SemanticOutcomesOf(SubAnswers)

\* the chunks whose text holds one of the terms, filtered by court, in id order
LexicalRows(terms, courtFilter, limit) ==
    LET hit == {id \in PassageIds : TextOf(id) \cap terms # {}
                                     /\ (courtFilter = "none" \/ CourtOf(id) = courtFilter)}
    IN  Take(Ascending(hit, NPassages), limit)

-----------------------------------------------------------------------------
(* The multi-query route: query analysis, main and sub-query vector        *)
(* searches, one lexical search, boosts, sort, diversity cap               *)

MaxResults == 10

MaxPerCase == 3

LegalTerms ==
    {"negligence", "liability", "damages", "breach", "duty", "care", "defendant",
     "plaintiff", "injury", "compensation", "contract", "tort", "defense"}

\* every word a query of the model is made of, lower-cased
Vocabulary == UNION {Range(LowerWords(q)) : q \in Queries}

\* w.length > n
LongerThan(n) == {w \in Vocabulary : Len(w) > n}

\* a value of the parsed JSON: its type, and what iterating it or indexing it gives
JsList(items) == [kind |-> "list", items |-> items]
JsUndefined == [kind |-> "undefined", items |-> <<>>]
\* a string, as its characters
JsString(chars) == [kind |-> "string", items |-> chars]
\* a number other than 0
JsNumber == [kind |-> "number", items |-> <<>>]

\* v || []
OrEmptyList(v) ==
    IF v.kind = "undefined" \/ (v.kind = "string" /\ v.items = <<>>) THEN JsList(<<>>) ELSE v

\* the types of the three list fields of a QueryAnalysis
AllLists == [subQueries |-> "list", keywords |-> "list", legalConcepts |-> "list"]

\* the analysis built without the model: the fallback of analyzeQuery
FallbackAnalysis(q) ==
    [kinds |-> AllLists,
     originalQuery |-> q,
     subQueries |-> <<q>>,
     keywords |-> Take(Filter(LowerWords(q), LongerThan(4)), 5),
     legalConcepts |-> Filter(LowerWords(q), LegalTerms),
     queryType |-> IF SpaceTokens(q) > 8 THEN "complex" ELSE "simple"]

\* the objects the analysis model answers with; a field it leaves out is "missing"
ParsedObjects ==
    {[subQueries |-> JsList(<<"subA", "subB">>), keywords |-> JsList(<<"negligence">>),
      legalConcepts |-> JsUndefined],
     [subQueries |-> JsList(<<"subA", "subA">>), keywords |-> JsList(<<>>),
      legalConcepts |-> JsUndefined],
     [subQueries |-> JsList(<<>>), keywords |-> JsList(<<"duty", "damages">>),
      legalConcepts |-> JsUndefined],
     [subQueries |-> JsList(<<"subA">>), keywords |-> JsList(<<"contract", "contract">>),
      legalConcepts |-> JsUndefined],
     [subQueries |-> JsList(<<>>), keywords |-> JsList(<<"the", "duty">>),
      legalConcepts |-> JsUndefined],
     [subQueries |-> JsNumber, keywords |-> JsUndefined, legalConcepts |-> JsUndefined],
     [subQueries |-> JsUndefined, keywords |-> JsString(<<"a", "b">>),
      legalConcepts |-> JsString(<<"t", "o", "r", "t">>)]}

AnalysisOutcomes ==
    {[kind |-> k, parsed |-> <<>>] : k \in {"throw", "nonOK", "noJson", "badJson"}}
        \cup {[kind |-> "parsed", parsed |-> o] : o \in ParsedObjects}

analyzeQuery(q, out) ==
    IF out.kind = "parsed"
    THEN [kinds |-> [subQueries |-> OrEmptyList(out.parsed.subQueries).kind,
                     keywords |-> OrEmptyList(out.parsed.keywords).kind,
                     legalConcepts |-> OrEmptyList(out.parsed.legalConcepts).kind],
          originalQuery |-> q,
          subQueries |-> OrEmptyList(out.parsed.subQueries).items,
          keywords |-> OrEmptyList(out.parsed.keywords).items,
          legalConcepts |-> OrEmptyList(out.parsed.legalConcepts).items,
          queryType |-> "complex"]
    ELSE FallbackAnalysis(q)

\* the vector length sent to the vector store, 0 when the store is not called
QueryEmbeddingDim(embed) ==
    CASE embed \in {"flat384", "nested384"} -> 384
      [] embed = "nestedOther" -> 7
      [] OTHER -> 0

semanticSearch(out, crt) ==
    IF QueryEmbeddingDim(out.embed) = 0 \/ out.search # "ok" THEN <<>>
    ELSE LET rows == Take(out.rows, 15)
         IN  IF crt \notin {"null", "all"}
             THEN Filter(rows, {r \in Range(rows) : CourtOf(r.id) = crt})
             ELSE rows

keywordSearch(keywords, crt, fetch) ==
    IF keywords = <<>> \/ fetch # "ok" THEN <<>>
    ELSE LET rows == LexicalRows(Range(Take(keywords, 4)),
                                 IF crt \notin {"null", "all"} THEN crt ELSE "none", 10)
         IN  [i \in 1..Len(rows) |-> VecRow(rows[i], Rat(45, 100))]

\* the boost applied to the similarity of the new observation, not of the existing entry
MergeOne_Overwrite(all, row, tag, num, den) ==
    IF HasId(all, row.id)
    THEN LET i == FindIdx(all, row.id)
         IN  [all EXCEPT ![i].matchedQueries = Append(@, tag),
                         ![i].similarity = RMin(One, RMul(row.similarity, num, den))]
    ELSE Append(all, Cand(row.id, row.similarity, <<tag>>, "none"))

\* one result of a sub-query or keyword search met while merging
MergeOne(all, row, tag, num, den) ==
    IF HasId(all, row.id)
    THEN LET i == FindIdx(all, row.id)
         IN  [all EXCEPT ![i].matchedQueries = Append(@, tag),
                         ![i].similarity = RMin(One, RMul(@, num, den))]
    ELSE Append(all, Cand(row.id, row.similarity, <<tag>>, "none"))

RECURSIVE MergeMatches(_, _, _, _, _)
MergeMatches(all, rows, tag, num, den) ==
    IF rows = <<>> THEN all
    ELSE MergeMatches(MergeOne(all, Head(rows), tag, num, den), Tail(rows), tag, num, den)

MainResults(rows) == [i \in 1..Len(rows) |-> Cand(rows[i].id, rows[i].similarity, <<"main">>, "none")]

\* the sub-query's results put in the place of the list instead of merged into it
MergeSubQuery_Replace(all, rows, subQuery) ==
    [i \in 1..Len(rows) |-> Cand(rows[i].id, rows[i].similarity, <<subQuery>>, "none")]

MergeSubQuery(all, rows, subQuery) == MergeMatches(all, rows, subQuery, 23, 20)

MergeKeyword(all, rows) == MergeMatches(all, rows, "keyword", 11, 10)

\* similarity * (1 + (matchedQueries.length || 1) * 0.05)
BoostMultiMatch(all) ==
    [i \in 1..Len(all) |->
        LET k == IF Len(all[i].matchedQueries) = 0 THEN 1 ELSE Len(all[i].matchedQueries)
        IN  [all[i] EXCEPT !.similarity = RMul(@, 20 + k, 20)]]

CaseCount(list, c) == Cardinality({i \in 1..Len(list) : CaseOf(list[i].id) = c})

RECURSIVE DiversifyFrom(_, _, _, _)
DiversifyFrom(results, i, diversified, maxResults) ==
    IF i > Len(results) THEN diversified
    ELSE LET next == IF CaseCount(diversified, CaseOf(results[i].id)) < MaxPerCase
                     THEN Append(diversified, results[i])
                     ELSE diversified
         IN  IF Len(next) >= maxResults THEN next
             ELSE DiversifyFrom(results, i + 1, next, maxResults)

\* the selection without the per-case count
diversifyResults_NoCap(results, maxResults) == Take(results, maxResults)

\* the selection that cuts to maxResults before it counts the cases
diversifyResults_CutFirst(results, maxResults) ==
    DiversifyFrom(Take(results, maxResults), 1, <<>>, maxResults)

diversifyResults(results, maxResults) == DiversifyFrom(results, 1, <<>>, maxResults)

\* what the answer model does: the call throws, is refused, or answers with or without content
AnswerOutcomes == {"throw", "nonOK", "noContent", "content"}

generateLegalAnalysis(out) ==
    CASE out = "content" -> "generated"
      [] out = "noContent" -> "Analysis generation failed."
      [] OTHER -> "Unable to generate analysis. Please review the case excerpts directly."

generateNoResultsGuidance == "## No Directly Relevant Cases Found"

NoLog ==
    [mainEmbed |-> "none", mainSearch |-> "none", mainRows |-> <<>>, subRows |-> <<>>,
     subFailed |-> <<>>, lexTerms |-> <<>>, lexFailed |-> <<>>, kwRows |-> <<>>,
     badDim |-> FALSE, rerank |-> [kind |-> "none", scores |-> <<>>], answer |-> "none"]

EmbedClass(embed) ==
    CASE embed \in {"throw", "nonOK"} -> "failed"
      [] embed \in {"flatOther", "object", "null"} -> "shape"
      [] OTHER -> "usable"

\* the catch of POST
Multi_Fail ==
    /\ pc' = "done" /\ status' = 500
    /\ UNCHANGED <<allResults, fused, finalResults, aiAnswer>>

\* analysis.legalConcepts.length > 0 holds and analysis.legalConcepts.join is no function
JoinThrows == queryAnalysis.kinds.legalConcepts = "string" /\ queryAnalysis.legalConcepts # <<>>

\* STEP 4 and the branches of STEP 5 that make no model call
Multi_Rank(all) ==
    LET sorted == SortBySimilarity(BoostMultiMatch(all))
        final == diversifyResults(sorted, MaxResults)
    IN  IF final = <<>> /\ JoinThrows THEN Multi_Fail
        ELSE /\ allResults' = sorted
             /\ fused' = all
             /\ finalResults' = final
             /\ IF final # <<>>
                THEN IF JoinThrows
                     THEN pc' = "done" /\ aiAnswer' = generateLegalAnalysis("throw") /\ status' = 200
                     ELSE pc' = "answer" /\ UNCHANGED <<aiAnswer, status>>
                ELSE pc' = "done" /\ aiAnswer' = generateNoResultsGuidance /\ status' = 200

\* STEP 3 calls the lexical store only with a non-empty list of keywords:
\* a number has no length, and a string has no map, which keywordSearch catches
Multi_AfterSubQueries(all) ==
    IF queryAnalysis.keywords # <<>> /\ queryAnalysis.kinds.keywords = "list"
    THEN pc' = "keyword" /\ allResults' = all /\ fused' = all
         /\ UNCHANGED <<finalResults, aiAnswer, status>>
    ELSE Multi_Rank(all)

Multi_Analyze ==
    /\ variant = "multi" /\ pc = "analyze"
    /\ \E out \in AnalysisOutcomes :
          queryAnalysis' = analyzeQuery(query, out)
    /\ pc' = "main"
    /\ UNCHANGED <<variant, query, court, allResults, fused, finalResults, aiAnswer, status, idx, log>>
    /\ UNCHANGED <<caseVars, pageVars>>

Multi_Main ==
    /\ variant = "multi" /\ pc = "main"
    /\ \E out \in SemanticOutcomes :
          LET rows == semanticSearch(out, court)
              all == allResults \o MainResults(rows)
          IN  /\ log' = [log EXCEPT !.mainEmbed = EmbedClass(out.embed),
                                    !.mainSearch = IF out.search = "ok" THEN "ok"
                                                   ELSE IF out.search = "none" THEN "none"
                                                   ELSE "failed",
                                    !.mainRows = rows,
                                    !.badDim = @ \/ QueryEmbeddingDim(out.embed) \notin {0, 384}]
              /\ IF queryAnalysis.kinds.subQueries = "number" THEN Multi_Fail
                 ELSE IF queryAnalysis.subQueries # <<>>
                 THEN pc' = "sub" /\ allResults' = all /\ fused' = all
                      /\ UNCHANGED <<finalResults, aiAnswer, status>>
                 ELSE Multi_AfterSubQueries(all)
    /\ idx' = 1
    /\ UNCHANGED <<variant, query, court, queryAnalysis>>
    /\ UNCHANGED <<caseVars, pageVars>>

Multi_SubQuery ==
    /\ variant = "multi" /\ pc = "sub"
    /\ \E out \in SubQueryOutcomes :
          LET rows == semanticSearch(out, court)
              all == MergeSubQuery(allResults, rows, queryAnalysis.subQueries[idx])
          IN  /\ log' = [log EXCEPT !.subRows = Append(@, rows),
                                    !.subFailed = Append(@, out.search # "ok"),
                                    !.badDim = @ \/ QueryEmbeddingDim(out.embed) \notin {0, 384}]
              /\ IF idx < Len(queryAnalysis.subQueries)
                 THEN pc' = "sub" /\ allResults' = all /\ fused' = all
                      /\ UNCHANGED <<finalResults, aiAnswer, status>>
                 ELSE Multi_AfterSubQueries(all)
    /\ idx' = idx + 1
    /\ UNCHANGED <<variant, query, court, queryAnalysis>>
    /\ UNCHANGED <<caseVars, pageVars>>

Multi_Keyword ==
    /\ variant = "multi" /\ pc = "keyword"
    /\ \E fetch \in FetchOutcomes :
          LET rows == keywordSearch(queryAnalysis.keywords, court, fetch)
          IN  /\ log' = [log EXCEPT !.lexTerms = Append(@, Range(Take(queryAnalysis.keywords, 4))),
                                    !.lexFailed = Append(@, fetch # "ok"),
                                    !.kwRows = [i \in 1..Len(rows) |-> rows[i].id]]
              /\ Multi_Rank(MergeKeyword(allResults, rows))
    /\ UNCHANGED <<variant, query, court, queryAnalysis, idx>>
    /\ UNCHANGED <<caseVars, pageVars>>

Multi_Answer ==
    /\ variant = "multi" /\ pc = "answer"
    /\ \E out \in AnswerOutcomes :
          aiAnswer' = generateLegalAnalysis(out) /\ log' = [log EXCEPT !.answer = out]
    /\ status' = 200
    /\ pc' = "done"
    /\ UNCHANGED <<variant, query, court, queryAnalysis, allResults, fused, finalResults, idx>>
    /\ UNCHANGED <<caseVars, pageVars>>

-----------------------------------------------------------------------------
(* The hybrid route: vector search, one lexical search per keyword,        *)
(* keyword-presence boost, sort, deduplication, top 10                      *)

HybridStopWords == {"from", "with", "that", "this", "have", "been", "were", "what", "when", "where"}

\* query.toLowerCase().split(/\s+/).filter(w => w.length > 3).filter(w => !stop.includes(w))
ExtractKeywords(q, stop) == Filter(Filter(LowerWords(q), LongerThan(3)), Vocabulary \ stop)

Hybrid_Keywords(q) == ExtractKeywords(q, HybridStopWords)

\* the vector length the route accepts: a flat or singly nested vector of 384
Checked_EmbeddingDim(embed) == IF embed \in {"flat384", "nested384"} THEN 384 ELSE 0

\* STEP 1: the rows pushed with source 'semantic'
Hybrid_Semantic(out) ==
    IF Checked_EmbeddingDim(out.embed) = 0 \/ out.search # "ok" THEN <<>>
    ELSE LET rows == Take(out.rows, 20)
         IN  [i \in 1..Len(rows) |-> Cand(rows[i].id, rows[i].similarity, <<>>, "semantic")]

Hybrid_MergeOne(all, id) ==
    IF ~HasId(all, id) THEN Append(all, Cand(id, Rat(6, 10), <<>>, "keyword"))
    ELSE LET i == FindIdx(all, id)
         IN  IF all[i].source = "keyword"
             THEN [all EXCEPT ![i].similarity = RMin(Rat(9, 10), RAdd(@, 1, 10))]
             ELSE all

RECURSIVE Hybrid_MergeKeyword(_, _)
Hybrid_MergeKeyword(all, ids) ==
    IF ids = <<>> THEN all
    ELSE Hybrid_MergeKeyword(Hybrid_MergeOne(all, Head(ids)), Tail(ids))

\* the number of entries of keywords found in the chunk's text
KeywordMatches(id, keywords) == Cardinality({k \in 1..Len(keywords) : keywords[k] \in TextOf(id)})

ScoreCap == Rat(99, 100)

Hybrid_Boost(all, keywords) ==
    [i \in 1..Len(all) |->
        LET m == KeywordMatches(all[i].id, keywords)
        IN  [all[i] EXCEPT !.similarity = RMin(ScoreCap, RMul(@, 20 + 3 * m, 20)),
                           !.keywordMatches = m]]

RECURSIVE DedupFrom(_, _, _)
DedupFrom(list, i, kept) ==
    IF i > Len(list) THEN kept
    ELSE DedupFrom(list, i + 1, IF HasId(kept, list[i].id) THEN kept ELSE Append(kept, list[i]))

\* allResults.filter(r => !seen.has(r.id) && seen.add(r.id))
DedupById(list) == DedupFrom(list, 1, <<>>)

generateAnalysis(out) ==
    CASE out = "content" -> "generated"
      [] out = "noContent" -> "Analysis unavailable."
      [] OTHER -> "Unable to generate analysis."

Hybrid_NoResults == "No relevant cases found for the query. This could mean: ..."

\* the ranking without the cut to the top 10
Hybrid_Rank_Uncut(all) ==
    LET ranked == DedupById(SortBySimilarity(Hybrid_Boost(all, Hybrid_Keywords(query))))
    IN  /\ allResults' = ranked
        /\ fused' = all
        /\ finalResults' = ranked
        /\ IF ranked # <<>>
           THEN pc' = "answer" /\ UNCHANGED <<aiAnswer, status>>
           ELSE pc' = "done" /\ aiAnswer' = Hybrid_NoResults /\ status' = 200

\* STEP 3 and the branch of STEP 4 that needs no model call
Hybrid_Rank(all) ==
    LET ranked == DedupById(SortBySimilarity(Hybrid_Boost(all, Hybrid_Keywords(query))))
        final == Take(ranked, 10)
    IN  /\ allResults' = ranked
        /\ fused' = all
        /\ finalResults' = final
        /\ IF final # <<>>
           THEN pc' = "answer" /\ UNCHANGED <<aiAnswer, status>>
           ELSE pc' = "done" /\ aiAnswer' = Hybrid_NoResults /\ status' = 200

Hybrid_Embed ==
    /\ variant = "hybrid" /\ pc = "embed"
    /\ \E out \in SemanticOutcomes :
          LET all == allResults \o Hybrid_Semantic(out)
              called == Checked_EmbeddingDim(out.embed) # 0
          IN  /\ log' = [log EXCEPT !.mainEmbed = EmbedClass(out.embed),
                                    !.mainSearch = IF ~called THEN "none"
                                                   ELSE IF out.search = "ok" THEN "ok" ELSE "failed",
                                    !.mainRows = IF called /\ out.search = "ok"
                                                 THEN Take(out.rows, 20) ELSE <<>>]
              /\ IF Take(Hybrid_Keywords(query), 5) # <<>>
                 THEN pc' = "keyword" /\ allResults' = all /\ fused' = all
                      /\ UNCHANGED <<finalResults, aiAnswer, status>>
                 ELSE Hybrid_Rank(all)
    /\ idx' = 1
    /\ UNCHANGED <<variant, query, court, queryAnalysis>>
    /\ UNCHANGED <<caseVars, pageVars>>

\* the keyword loop that stops merging once a lookup has failed
Hybrid_Keyword_Abort ==
    /\ variant = "hybrid" /\ pc = "keyword"
    /\ \E fetch \in FetchOutcomes :
          LET keyword == Take(Hybrid_Keywords(query), 5)[idx]
              rows == IF fetch = "ok" /\ \A j \in 1..Len(log.lexFailed) : ~log.lexFailed[j]
                      THEN LexicalRows({keyword}, "none", 10) ELSE <<>>
              all == Hybrid_MergeKeyword(allResults, rows)
          IN  /\ log' = [log EXCEPT !.lexTerms = Append(@, {keyword}),
                                    !.lexFailed = Append(@, fetch # "ok"),
                                    !.kwRows = @ \o rows]
              /\ IF idx < Len(Take(Hybrid_Keywords(query), 5))
                 THEN pc' = "keyword" /\ allResults' = all /\ fused' = all
                      /\ UNCHANGED <<finalResults, aiAnswer, status>>
                 ELSE Hybrid_Rank(all)
    /\ idx' = idx + 1
    /\ UNCHANGED <<variant, query, court, queryAnalysis>>
    /\ UNCHANGED <<caseVars, pageVars>>

Hybrid_Keyword ==
    /\ variant = "hybrid" /\ pc = "keyword"
    /\ \E fetch \in FetchOutcomes :
          LET keyword == Take(Hybrid_Keywords(query), 5)[idx]
              rows == IF fetch = "ok" THEN LexicalRows({keyword}, "none", 10) ELSE <<>>
              all == Hybrid_MergeKeyword(allResults, rows)
          IN  /\ log' = [log EXCEPT !.lexTerms = Append(@, {keyword}),
                                    !.lexFailed = Append(@, fetch # "ok"),
                                    !.kwRows = @ \o rows]
              /\ IF idx < Len(Take(Hybrid_Keywords(query), 5))
                 THEN pc' = "keyword" /\ allResults' = all /\ fused' = all
                      /\ UNCHANGED <<finalResults, aiAnswer, status>>
                 ELSE Hybrid_Rank(all)
    /\ idx' = idx + 1
    /\ UNCHANGED <<variant, query, court, queryAnalysis>>
    /\ UNCHANGED <<caseVars, pageVars>>

Hybrid_Answer ==
    /\ variant = "hybrid" /\ pc = "answer"
    /\ \E out \in AnswerOutcomes :
          aiAnswer' = generateAnalysis(out) /\ log' = [log EXCEPT !.answer = out]
    /\ status' = 200
    /\ pc' = "done"
    /\ UNCHANGED <<variant, query, court, queryAnalysis, allResults, fused, finalResults, idx>>
    /\ UNCHANGED <<caseVars, pageVars>>

-----------------------------------------------------------------------------
(* The rerank route: vector search with a court filter, lexical search per *)
(* keyword, deduplication, relevance scoring by a model, top 10            *)

Rerank_Keywords(q) == ExtractKeywords(q, HybridStopWords \cup {"cases"})

\* the points the vector store answers with under filter court = court.toLowerCase()
Rerank_Semantic(out, crt) ==
    IF QueryEmbeddingDim(out.embed) = 0 \/ out.search # "ok" THEN <<>>
    ELSE LET rows == IF crt # "null"
                     THEN Filter(out.rows, {r \in Range(out.rows) : CourtOf(r.id) = crt})
                     ELSE out.rows
             points == Take(rows, 25)
         IN  [i \in 1..Len(points) |-> Cand(points[i].id, points[i].similarity, <<>>, "semantic")]

\* the merge that puts a lexical candidate in front of the list
Rerank_MergeOne_InFront(all, id) ==
    IF ~HasId(all, id) THEN <<Cand(id, Rat(1, 2), <<>>, "keyword")>> \o all ELSE all

Rerank_MergeOne(all, id) ==
    IF ~HasId(all, id) THEN Append(all, Cand(id, Rat(1, 2), <<>>, "keyword")) ELSE all

RECURSIVE Rerank_MergeKeyword(_, _)
Rerank_MergeKeyword(all, ids) ==
    IF ids = <<>> THEN all
    ELSE Rerank_MergeKeyword(Rerank_MergeOne(all, Head(ids)), Tail(ids))

\* how many candidates are sent to the scoring model
RerankTopN == 15

LowScores == [i \in 1..RerankTopN |-> 2]

\* the arrays the scoring model answers with
ScoreArrays == {<<>>, <<9>>, <<2, 9>>, <<4, 3>>, <<4, 6>>, LowScores, LowScores \o <<9>>}

RerankOutcomes ==
    {[kind |-> k, scores |-> <<>>] : k \in {"throw", "nonOK", "noMatch", "badJson"}}
        \cup {[kind |-> "scores", scores |-> a] : a \in ScoreArrays}

\* scores[i] ?? 5
\* a score that is missing counted as 0
ScoreAt_MissingIsZero(scores, i) == IF i <= Len(scores) THEN scores[i] ELSE 0

ScoreAt(scores, i) == IF i <= Len(scores) THEN scores[i] ELSE 5

\* relevanceScore * 0.7 + similarity * 10 * 0.3
CombinedKey(r) == RAdd(RMul(r.similarity, 3, 1), 7 * r.relevanceScore, 10)

\* the scoring stage without the sort of its fallback
rerankWithAI_Unsorted(results, out) ==
    IF out.kind = "scores"
    THEN LET scored == [i \in 1..Len(results) |->
                           [results[i] EXCEPT !.relevanceScore = ScoreAt(out.scores, i),
                                              !.similarity = RMul(@, 20 + ScoreAt(out.scores, i), 20)]]
             filtered == Filter(scored, {r \in Range(scored) : r.relevanceScore >= 4})
         IN  SortDesc(filtered, [i \in 1..Len(filtered) |-> CombinedKey(filtered[i])])
    ELSE results

rerankWithAI(results, out) ==
    IF out.kind = "scores"
    THEN LET scored == [i \in 1..Len(results) |->
                           [results[i] EXCEPT !.relevanceScore = ScoreAt(out.scores, i),
                                              !.similarity = RMul(@, 20 + ScoreAt(out.scores, i), 20)]]
             filtered == Filter(scored, {r \in Range(scored) : r.relevanceScore >= 4})
         IN  SortDesc(filtered, [i \in 1..Len(filtered) |-> CombinedKey(filtered[i])])
    ELSE SortBySimilarity(results)

Rerank_NoResults == "No relevant cases found for the query."

\* the response once allResults is final
Rerank_Respond(all) ==
    LET final == Take(all, 10)
    IN  /\ allResults' = all
        /\ finalResults' = final
        /\ IF final # <<>>
           THEN pc' = "answer" /\ UNCHANGED <<aiAnswer, status>>
           ELSE pc' = "done" /\ aiAnswer' = Rerank_NoResults /\ status' = 200

\* deduplication, then STEP 3 when there is anything to score
Rerank_AfterKeywords(all) ==
    LET deduped == DedupById(all)
    IN  /\ fused' = deduped
        /\ IF deduped # <<>>
           THEN pc' = "rerank" /\ allResults' = deduped
                /\ UNCHANGED <<finalResults, aiAnswer, status>>
           ELSE Rerank_Respond(deduped)

Rerank_Embed ==
    /\ variant = "rerank" /\ pc = "embed"
    /\ \E out \in SemanticOutcomes :
          LET all == allResults \o Rerank_Semantic(out, court)
              called == QueryEmbeddingDim(out.embed) # 0
          IN  /\ log' = [log EXCEPT !.mainEmbed = EmbedClass(out.embed),
                                    !.mainSearch = IF ~called THEN "none"
                                                   ELSE IF out.search = "ok" THEN "ok" ELSE "failed",
                                    !.mainRows = [i \in 1..Len(Rerank_Semantic(out, court)) |->
                                                     VecRow(Rerank_Semantic(out, court)[i].id,
                                                            Rerank_Semantic(out, court)[i].similarity)],
                                    !.badDim = @ \/ QueryEmbeddingDim(out.embed) \notin {0, 384}]
              /\ IF Take(Rerank_Keywords(query), 4) # <<>>
                 THEN pc' = "keyword" /\ allResults' = all /\ fused' = all
                      /\ UNCHANGED <<finalResults, aiAnswer, status>>
                 ELSE Rerank_AfterKeywords(all)
    /\ idx' = 1
    /\ UNCHANGED <<variant, query, court, queryAnalysis>>
    /\ UNCHANGED <<caseVars, pageVars>>

Rerank_Keyword ==
    /\ variant = "rerank" /\ pc = "keyword"
    /\ \E fetch \in FetchOutcomes :
          LET keyword == Take(Rerank_Keywords(query), 4)[idx]
              rows == IF fetch = "ok" THEN LexicalRows({keyword}, "none", 8) ELSE <<>>
              all == Rerank_MergeKeyword(allResults, rows)
          IN  /\ log' = [log EXCEPT !.lexTerms = Append(@, {keyword}),
                                    !.lexFailed = Append(@, fetch # "ok"),
                                    !.kwRows = @ \o rows]
              /\ IF idx < Len(Take(Rerank_Keywords(query), 4))
                 THEN pc' = "keyword" /\ allResults' = all /\ fused' = all
                      /\ UNCHANGED <<finalResults, aiAnswer, status>>
                 ELSE Rerank_AfterKeywords(all)
    /\ idx' = idx + 1
    /\ UNCHANGED <<variant, query, court, queryAnalysis>>
    /\ UNCHANGED <<caseVars, pageVars>>

Rerank_Score ==
    /\ variant = "rerank" /\ pc = "rerank"
    /\ \E out \in RerankOutcomes :
          /\ log' = [log EXCEPT !.rerank = IF out.kind = "scores" THEN out
                                              ELSE [kind |-> "failed", scores |-> <<>>]]
          /\ Rerank_Respond(rerankWithAI(Take(allResults, RerankTopN), out))
    /\ UNCHANGED <<variant, query, court, queryAnalysis, fused, idx>>
    /\ UNCHANGED <<caseVars, pageVars>>

Rerank_Answer ==
    /\ variant = "rerank" /\ pc = "answer"
    /\ \E out \in AnswerOutcomes :
          aiAnswer' = generateAnalysis(out) /\ log' = [log EXCEPT !.answer = out]
    /\ status' = 200
    /\ pc' = "done"
    /\ UNCHANGED <<variant, query, court, queryAnalysis, allResults, fused, finalResults, idx>>
    /\ UNCHANGED <<caseVars, pageVars>>

-----------------------------------------------------------------------------
(* The basic route: vector search, and a lexical search only when the      *)
(* vector search gave nothing                                               *)

\* query.split(' ').filter(w => w.length > 3).slice(0, 3)
Basic_Keywords(q) ==
    Take(Filter(Words(q), {w \in Range(Words(q)) : Len(w) > 3}), 3)

\* the rows of match_legal_chunks with match_count 10 and filter_court
Basic_Semantic(out, crt) ==
    LET rows == IF crt \notin {"null", "all"}
                THEN Filter(out.rows, {r \in Range(out.rows) : CourtOf(r.id) = crt})
                ELSE out.rows
        top == Take(rows, 10)
    IN  [i \in 1..Len(top) |-> Cand(top[i].id, top[i].similarity, <<>>, "none")]

\* the rows of the or-query over the keywords, each with similarity 0.5
\* the fallback rows with the baseline of the hybrid route
Basic_Fallback_OtherBaseline(keywords, crt) ==
    LET rows == LexicalRows({Lower(k) : k \in Range(keywords)},
                            IF crt \notin {"null", "all"} THEN crt ELSE "none", 10)
    IN  [i \in 1..Len(rows) |-> Cand(rows[i], Rat(6, 10), <<>>, "none")]

Basic_Fallback(keywords, crt) ==
    LET rows == LexicalRows({Lower(k) : k \in Range(keywords)},
                            IF crt \notin {"null", "all"} THEN crt ELSE "none", 10)
    IN  [i \in 1..Len(rows) |-> Cand(rows[i], Rat(1, 2), <<>>, "none")]

\* generateAIAnswer gives the model's text or null
generateAIAnswer(out) == IF out = "content" THEN "generated" ELSE "null"

Basic_Fail ==
    /\ pc' = "done" /\ status' = 500
    /\ UNCHANGED <<allResults, fused, finalResults, aiAnswer>>

\* Step 3 when there are no results: the response carries aiAnswer null
Basic_Respond(results) ==
    /\ allResults' = results /\ fused' = results /\ finalResults' = results
    /\ IF results # <<>>
       THEN pc' = "answer" /\ UNCHANGED <<aiAnswer, status>>
       ELSE pc' = "done" /\ aiAnswer' = "null" /\ status' = 200

Basic_Embed ==
    /\ variant = "basic" /\ pc = "embed"
    /\ \E out \in SemanticOutcomes :
          LET called == Checked_EmbeddingDim(out.embed) # 0
              results == IF called /\ out.search = "ok" THEN Basic_Semantic(out, court) ELSE <<>>
          IN  /\ log' = [log EXCEPT !.mainEmbed = EmbedClass(out.embed),
                                    !.mainSearch = IF ~called THEN "none"
                                                   ELSE IF out.search = "ok" THEN "ok" ELSE "failed",
                                    !.mainRows = [i \in 1..Len(results) |->
                                                     VecRow(results[i].id, results[i].similarity)]]
              /\ IF called /\ out.search = "throw" THEN Basic_Fail
                 ELSE IF results = <<>> /\ Basic_Keywords(query) # <<>>
                 THEN pc' = "fallback" /\ UNCHANGED <<allResults, fused, finalResults, aiAnswer, status>>
                 ELSE Basic_Respond(results)
    /\ UNCHANGED <<variant, query, court, queryAnalysis, idx>>
    /\ UNCHANGED <<caseVars, pageVars>>

Basic_FallbackSearch ==
    /\ variant = "basic" /\ pc = "fallback"
    /\ \E fetch \in FetchOutcomes :
          /\ log' = [log EXCEPT !.lexTerms = Append(@, Range(Basic_Keywords(query))),
                                !.lexFailed = Append(@, fetch # "ok")]
          /\ IF fetch = "throw" THEN Basic_Fail
             ELSE Basic_Respond(IF fetch = "ok" THEN Basic_Fallback(Basic_Keywords(query), court)
                                ELSE <<>>)
    /\ UNCHANGED <<variant, query, court, queryAnalysis, idx>>
    /\ UNCHANGED <<caseVars, pageVars>>

Basic_Answer ==
    /\ variant = "basic" /\ pc = "answer"
    /\ \E out \in AnswerOutcomes :
          aiAnswer' = generateAIAnswer(out) /\ log' = [log EXCEPT !.answer = out]
    /\ status' = 200
    /\ pc' = "done"
    /\ UNCHANGED <<variant, query, court, queryAnalysis, allResults, fused, finalResults, idx>>
    /\ UNCHANGED <<caseVars, pageVars>>

-----------------------------------------------------------------------------
(* The first route: embeddings of the chat provider, no failure boundary   *)
(* around the calls, lexical search on the first word when embedding fails *)

\* the embeddings call throws, is refused, or answers with or without data[0].embedding
LegacyEmbedOutcomes == {"throw", "nonOK", "malformed", "ok"}

LegacyAnswers == {<<>>, <<VecRow(1, Rat(1, 2))>>, Take(LongRows, 8)}

\* keywordSearch(query, startTime): the rows for the first word, limit 5
Legacy_keywordSearch(q) ==
    LET rows == LexicalRows({Lower(Words(q)[1])}, "none", 5)
    IN  [i \in 1..Len(rows) |-> Cand(rows[i], Rat(1, 2), <<>>, "none")]

Legacy_Embed ==
    /\ variant = "legacy" /\ pc = "embed"
    /\ \E e \in LegacyEmbedOutcomes :
          /\ log' = [log EXCEPT !.mainEmbed = IF e = "ok" THEN "usable"
                                              ELSE IF e = "malformed" THEN "shape" ELSE "failed"]
          /\ IF e \in {"throw", "malformed"} THEN Basic_Fail
             ELSE /\ pc' = IF e = "nonOK" THEN "fallback" ELSE "search"
                  /\ UNCHANGED <<allResults, fused, finalResults, aiAnswer, status>>
    /\ UNCHANGED <<variant, query, court, queryAnalysis, idx>>
    /\ UNCHANGED <<caseVars, pageVars>>

\* the lexical store's answer is read as rows whatever its status
Legacy_Fallback ==
    /\ variant = "legacy" /\ pc = "fallback"
    /\ \E fetch \in FetchOutcomes :
          /\ log' = [log EXCEPT !.lexTerms = Append(@, {Lower(Words(query)[1])}),
                                !.lexFailed = Append(@, fetch # "ok")]
          /\ IF fetch # "ok" THEN Basic_Fail
             ELSE /\ allResults' = Legacy_keywordSearch(query)
                  /\ fused' = allResults'
                  /\ finalResults' = allResults'
                  /\ aiAnswer' = "null" /\ status' = 200 /\ pc' = "done"
    /\ UNCHANGED <<variant, query, court, queryAnalysis, idx>>
    /\ UNCHANGED <<caseVars, pageVars>>

Legacy_Search ==
    /\ variant = "legacy" /\ pc = "search"
    /\ \E f \in FetchOutcomes, rows \in LegacyAnswers :
          /\ f = "ok" \/ rows = <<>>
          /\ log' = [log EXCEPT !.mainSearch = IF f = "ok" THEN "ok" ELSE "failed",
                                !.mainRows = rows]
          /\ IF f # "ok" THEN Basic_Fail
             ELSE Basic_Respond([i \in 1..Len(rows) |->
                                    Cand(rows[i].id, rows[i].similarity, <<>>, "none")])
    /\ UNCHANGED <<variant, query, court, queryAnalysis, idx>>
    /\ UNCHANGED <<caseVars, pageVars>>

Legacy_Answer ==
    /\ variant = "legacy" /\ pc = "answer"
    /\ \E out \in AnswerOutcomes :
          aiAnswer' = generateAIAnswer(out) /\ log' = [log EXCEPT !.answer = out]
    /\ status' = 200
    /\ pc' = "done"
    /\ UNCHANGED <<variant, query, court, queryAnalysis, allResults, fused, finalResults, idx>>
    /\ UNCHANGED <<caseVars, pageVars>>

-----------------------------------------------------------------------------
(* The request *)

Variants == {"multi", "hybrid", "rerank", "basic", "legacy"}

\* the request bodies each route is driven with
RequestsOf(v) ==
    CASE v = "multi" -> BodyQueries \ {"negligence", "the law"}
      [] v = "rerank" -> BodyQueries \ {"duty duty", "where is  the duty of care in tort"}
      [] OTHER -> BodyQueries \ {"where is  the duty of care in tort"}

CourtsOf(v) ==
    CASE v \in {"multi", "hybrid"} -> {"null", "hkca"}
      [] v = "legacy" -> {"null"}
      [] OTHER -> Courts

FirstStep(v) == CASE v = "multi" -> "analyze" [] OTHER -> "embed"

NoAnalysis ==
    [kinds |-> AllLists, originalQuery |-> "", subQueries |-> <<>>, keywords |-> <<>>, legalConcepts |-> <<>>,
     queryType |-> "simple"]

\* no request has been made of the search route
SearchIdle ==
    /\ variant = "none" /\ pc = "idle" /\ query = "" /\ court = "null"
    /\ queryAnalysis = NoAnalysis /\ allResults = <<>> /\ fused = <<>> /\ finalResults = <<>>
    /\ aiAnswer = "null" /\ status = 0 /\ idx = 1 /\ log = NoLog

Init == SearchIdle /\ CaseIdle /\ caseTable = <<>> /\ PageIdle

Receive ==
    /\ pc = "idle"
    /\ \E v \in Variants, q \in BodyQueries, c \in Courts :
          /\ q \in RequestsOf(v) /\ c \in CourtsOf(v)
          /\ variant' = v /\ query' = q /\ court' = c
          /\ IF QueryRejected(q)
             THEN pc' = "done" /\ status' = 400
             ELSE pc' = FirstStep(v) /\ status' = 0
    /\ UNCHANGED <<queryAnalysis, allResults, fused, finalResults, aiAnswer, idx, log>>
    /\ UNCHANGED <<caseVars, pageVars>>

Next ==
    \/ Receive
    \/ Multi_Analyze
    \/ Multi_Main
    \/ Multi_SubQuery
    \/ Multi_Keyword
    \/ Multi_Answer
    \/ Hybrid_Embed
    \/ Hybrid_Keyword
    \/ Hybrid_Answer
    \/ Rerank_Embed
    \/ Rerank_Keyword
    \/ Rerank_Score
    \/ Rerank_Answer
    \/ Basic_Embed
    \/ Basic_FallbackSearch
    \/ Basic_Answer
    \/ Legacy_Embed
    \/ Legacy_Fallback
    \/ Legacy_Search
    \/ Legacy_Answer

Spec == Init /\ [][Next]_vars

-----------------------------------------------------------------------------
(* Properties *)

Responded == pc \in {"answer", "done"} /\ status \notin {400, 500}

NoDuplicateIds(list) == \A i, j \in 1..Len(list) : list[i].id = list[j].id => i = j

Cases == {CaseOf(id) : id \in PassageIds}

\* C1: in the multi-query route no case_id occurs more than 3 times in the
\* list diversifyResults returns, so none occupies more than 3 slots of the
\* results of the response.
C1_DiversityCap ==
    (variant = "multi" /\ Responded) =>
        \A c \in Cases : CaseCount(finalResults, c) <= 3

\* a response for which the ranked candidates held more than 3 chunks of a
\* case and the results hold exactly 3 of them
C1_Witness ==
    /\ variant = "multi" /\ pc = "done" /\ status = 200
    /\ \E c \in Cases : CaseCount(allResults, c) > 3 /\ CaseCount(finalResults, c) = 3

\* C2: the candidate list after fusion and the results of the response hold
\* no two entries with the same id, whatever lists the services return.
C2_UniqueIds ==
    (variant \in {"multi", "hybrid", "rerank"} /\ Responded) =>
        NoDuplicateIds(allResults) /\ NoDuplicateIds(finalResults)

\* C3: after fusion and every boost, each candidate of the results has a
\* score of at most 0.99.
C3_ScoreCap ==
    (variant \in {"multi", "hybrid", "rerank"} /\ Responded) =>
        \A i \in 1..Len(finalResults) : RLeq(finalResults[i].similarity, ScoreCap)

\* the part of the fused list that was sent to the scoring model
SentToRerank == Take(fused, RerankTopN)

\* C4: when the scoring model's array is parsed and every candidate sent to
\* it is scored below 4, the results are those of the ranking before the
\* rerank: not empty when the candidate list was not empty.
C4_RerankFallback ==
    (/\ variant = "rerank" /\ Responded
     /\ log.rerank.kind = "scores"
     /\ fused # <<>>
     /\ \A i \in 1..Len(SentToRerank) : ScoreAt(log.rerank.scores, i) < 4)
        => finalResults # <<>>

\* C5: when the scoring call throws, is refused, or answers without a
\* well-formed array of numbers, rerankWithAI returns the candidates it was
\* given, none dropped or added, similarity unchanged, in descending order
\* of similarity.
C5_RerankFailureKeepsAll ==
    (variant = "rerank" /\ Responded /\ log.rerank.kind = "failed") =>
        /\ Len(allResults) = Len(SentToRerank)
        /\ \A i \in 1..Len(SentToRerank) : \E j \in 1..Len(allResults) : allResults[j] = SentToRerank[i]
        /\ NoDuplicateIds(allResults)
        /\ IsSortedBySimilarity(allResults)

\* a failed scoring call after which the fallback had to reorder the candidates
C5_Witness ==
    /\ variant = "rerank" /\ pc = "done" /\ log.rerank.kind = "failed"
    /\ Len(allResults) >= 2
    /\ allResults # SentToRerank

\* every retrieval call of the request failed: no embedding, no answer of
\* the vector store, no answer of the lexical store
AllRetrievalFailed ==
    /\ log.mainEmbed = "failed" \/ log.mainSearch = "failed"
    /\ \A i \in 1..Len(log.subFailed) : log.subFailed[i]
    /\ \A i \in 1..Len(log.lexFailed) : log.lexFailed[i]

\* C6: when every retrieval call of a request with a valid query fails, the
\* response has status 200, no results and a guidance text as its answer.
C6_AllFailGuidance ==
    (pc = "done" /\ ~QueryRejected(query) /\ AllRetrievalFailed) =>
        status = 200 /\ finalResults = <<>> /\ aiAnswer # "null"

\* whether the lexical match id is in the results, or was cut by the
\* route's limits: 3 per case and 10 in the multi-query route, 10 in the hybrid
ShownOrCut(id) ==
    \/ id \in Ids(finalResults)
    \/ Len(finalResults) = 10
    \/ variant = "multi" /\ CaseCount(finalResults, CaseOf(id)) = 3

IsPrefix(s, t) == Len(s) <= Len(t) /\ SubSeq(t, 1, Len(s)) = s

\* C8: a merge step of the multi-query and hybrid routes never removes a
\* recorded signal of a candidate and never lowers its score.
C8_MergeMonotone ==
    [][(variant \in {"multi", "hybrid"} /\ pc \in {"sub", "keyword"}) =>
          /\ Len(fused') >= Len(allResults)
          /\ \A i \in 1..Len(allResults) :
                /\ fused'[i].id = allResults[i].id
                /\ fused'[i].source = allResults[i].source
                /\ IsPrefix(allResults[i].matchedQueries, fused'[i].matchedQueries)
                /\ RLeq(allResults[i].similarity, fused'[i].similarity)]_vars

\* a candidate observed again by a later search and boosted for it
C8_Witness ==
    /\ variant = "multi" /\ pc \in {"sub", "keyword"}
    /\ \E i \in 1..Len(fused) :
          /\ Len(fused[i].matchedQueries) >= 2
          /\ \E j \in 1..Len(log.mainRows) :
                /\ log.mainRows[j].id = fused[i].id
                /\ RLess(log.mainRows[j].similarity, fused[i].similarity)

\* the signal named tag has already reported the candidate; the original
\* query run as a sub-query is the signal of the main search
Reported(cand, tag) ==
    \/ tag \in Range(cand.matchedQueries)
    \/ tag = query /\ "main" \in Range(cand.matchedQueries)

RECURSIVE MergeDistinct(_, _, _, _, _)
\* the merge that counts each signal once for each candidate
MergeDistinct(all, rows, tag, num, den) ==
    IF rows = <<>> THEN all
    ELSE LET row == Head(rows)
             next == IF HasId(all, row.id) /\ Reported(all[FindIdx(all, row.id)], tag)
                     THEN all
                     ELSE MergeOne(all, row, tag, num, den)
         IN  MergeDistinct(next, Tail(rows), tag, num, den)

RECURSIVE MergeSubQueriesDistinct(_, _)
MergeSubQueriesDistinct(all, i) ==
    IF i > Len(log.subRows) THEN all
    ELSE MergeSubQueriesDistinct(
             MergeDistinct(all, log.subRows[i], queryAnalysis.subQueries[i], 23, 20), i + 1)

KeywordRowsSeen == [i \in 1..Len(log.kwRows) |-> VecRow(log.kwRows[i], Rat(45, 100))]

\* the ranked list of the multi-query route had every signal counted once
Multi_RankedDistinct ==
    SortBySimilarity(BoostMultiMatch(
        MergeDistinct(MergeSubQueriesDistinct(MainResults(log.mainRows), 1),
                      KeywordRowsSeen, "keyword", 11, 10)))

RECURSIVE Hybrid_MergeDistinct(_, _, _)
\* the keyword loop of the hybrid route with a repeated keyword searched once
Hybrid_MergeDistinct(all, kws, i) ==
    IF i > Len(kws) THEN all
    ELSE LET again == \E j \in 1..(i - 1) : kws[j] = kws[i] /\ ~log.lexFailed[j]
             rows == IF log.lexFailed[i] \/ again THEN <<>> ELSE LexicalRows({kws[i]}, "none", 10)
         IN  Hybrid_MergeDistinct(Hybrid_MergeKeyword(all, rows), kws, i + 1)

RECURSIVE Distinct(_)
\* the sequence without the later occurrences of its elements
Distinct(s) ==
    IF s = <<>> THEN <<>>
    ELSE LET front == Distinct(SubSeq(s, 1, Len(s) - 1))
         IN  IF s[Len(s)] \in Range(front) THEN front ELSE Append(front, s[Len(s)])

Hybrid_RankedDistinct ==
    LET semantic == [i \in 1..Len(log.mainRows) |->
                        Cand(log.mainRows[i].id, log.mainRows[i].similarity, <<>>, "semantic")]
        merged == Hybrid_MergeDistinct(semantic, Take(Hybrid_Keywords(query), 5), 1)
    IN  DedupById(SortBySimilarity(Hybrid_Boost(merged, Distinct(Hybrid_Keywords(query)))))

\* C9: a signal that reports a candidate a second time (a sub-query text
\* repeated, a sub-query equal to the query, a keyword repeated) leaves the
\* candidate's score and matched signals as if it had reported it once.
C9_DistinctSignals ==
    /\ (variant = "multi" /\ Responded) => allResults = Multi_RankedDistinct
    /\ (variant = "hybrid" /\ Responded) => allResults = Hybrid_RankedDistinct

ScoreSet(list) == {<<list[i].id, list[i].similarity>> : i \in 1..Len(list)}

\* the ranked list of the multi-query route had its two sub-query lists been
\* merged in the other order
Multi_RankedSwapped ==
    LET main == MainResults(log.mainRows)
        second == MergeSubQuery(main, log.subRows[2], queryAnalysis.subQueries[2])
        first == MergeSubQuery(second, log.subRows[1], queryAnalysis.subQueries[1])
    IN  SortBySimilarity(BoostMultiMatch(MergeKeyword(first, KeywordRowsSeen)))

\* C10: merging two candidate lists in either order gives the same set of
\* ids and the same final score for every id.
C10_OrderIndependent ==
    (variant = "multi" /\ Responded /\ Len(log.subRows) = 2) =>
        ScoreSet(allResults) = ScoreSet(Multi_RankedSwapped)

-----------------------------------------------------------------------------
(* Agreement of the vector and the lexical search *)

RECURSIVE MergeSubQueriesFrom(_, _)
\* the sub-query lists the route received, merged in their order from the i-th on
MergeSubQueriesFrom(all, i) ==
    IF i > Len(log.subRows) THEN all
    ELSE MergeSubQueriesFrom(MergeSubQuery(all, log.subRows[i], queryAnalysis.subQueries[i]), i + 1)

SemanticCands(rows) == [i \in 1..Len(rows) |-> Cand(rows[i].id, rows[i].similarity, <<>>, "semantic")]

\* the scored list the route would end fusion with had the lexical store returned nothing
VectorOnly ==
    CASE variant = "multi" -> BoostMultiMatch(MergeSubQueriesFrom(MainResults(log.mainRows), 1))
      [] variant = "hybrid" -> Hybrid_Boost(SemanticCands(log.mainRows), Hybrid_Keywords(query))
      [] OTHER -> SemanticCands(log.mainRows)

\* the scored list at the end of fusion: the rerank route scores relevance after it
FusionEnd == IF variant = "rerank" THEN fused ELSE allResults

\* the retrieval signals a candidate records: matchedQueries, or the single source field
SignalsOf(cand) ==
    (IF cand.source = "semantic" \/ Range(cand.matchedQueries) \ {"keyword"} # {}
     THEN {"vector"} ELSE {})
        \cup (IF cand.source = "keyword" \/ "keyword" \in Range(cand.matchedQueries)
              THEN {"lexical"} ELSE {})

ScoreIn(list, id) == list[FindIdx(list, id)].similarity

\* the passages both searches returned
InBothSearches == Ids(VectorOnly) \cap Range(log.kwRows)

\* C11: a passage returned by the vector search and by the lexical search
\* ends fusion with both signals recorded and, when its vector-only score is
\* below the cap, with a score strictly greater than that vector-only score.
C11_AgreementBoost ==
    (variant \in {"multi", "hybrid", "rerank"} /\ Responded) =>
        \A id \in InBothSearches :
            /\ SignalsOf(FusionEnd[FindIdx(FusionEnd, id)]) = {"vector", "lexical"}
            /\ RLess(ScoreIn(VectorOnly, id), ScoreCap) =>
                   RLess(ScoreIn(VectorOnly, id), ScoreIn(FusionEnd, id))

\* C12: the results list of a response never has more than 10 entries,
\* however many candidates the retrieval calls returned.
C12_AtMostTen == Len(finalResults) <= 10

C12_Witness == Responded /\ Len(allResults) > 10 /\ Len(finalResults) = 10

\* the answer model is about to be called: every route calls it from this step only
AnswerModelCalled == pc = "answer"

\* C13: with an empty final results list the answer model is not called and
\* the response carries a non-null guidance string; the model is called only
\* with non-empty final results.
C13_EmptySkipsModel ==
    /\ AnswerModelCalled => finalResults # <<>>
    /\ (pc = "done" /\ status = 200 /\ finalResults = <<>>) => aiAnswer # "null"

\* the results a route responds with, from its ranked list
RankedResults ==
    CASE variant = "multi" -> diversifyResults(allResults, MaxResults)
      [] variant \in {"hybrid", "rerank"} -> Take(allResults, 10)
      [] OTHER -> allResults

\* C14: when the call of the answer model throws, is answered non-OK or is
\* answered without message content, the answer is a fixed non-null string
\* and the response is 200 with the ranked results unchanged.
C14_AnswerFailureFallback ==
    (pc = "done" /\ log.answer \in {"throw", "nonOK", "noContent"}) =>
        /\ aiAnswer \notin {"null", "generated"}
        /\ status = 200
        /\ finalResults # <<>> /\ finalResults = RankedResults

\* C15: analyzeQuery returns, for every outcome of the model call, an
\* analysis whose subQueries, keywords and legalConcepts are lists, and no
\* outcome of the analysis makes the multi-query route respond 500.
C15_AnalysisNeverFails ==
    variant = "multi" =>
        /\ queryAnalysis.kinds = AllLists
        /\ status # 500

\* the request failed on the embedding answer: no later call and no field of
\* the analysis can have caused the 500
EmbeddingShapeError ==
    status = 500 /\ log.mainEmbed = "shape" /\ log.lexFailed = <<>> /\ queryAnalysis.kinds = AllLists

\* C16: the vector search is invoked only with a vector of 384 elements, and
\* an embedding answer of any other shape leads to no vector search and to
\* no error for the request.
C16_Only384 ==
    /\ ~log.badDim
    /\ log.mainEmbed = "shape" => log.mainSearch = "none" /\ ~EmbeddingShapeError

\* the terms of every call of the lexical store
TermsSent == UNION Range(log.lexTerms)

\* C17: every term sent to the lexical store has at least 4 characters and
\* is no stop-word, in every route and for keywords of the heuristic split
\* as for keywords of the analysis model.
C17_TermsFiltered == \A t \in TermsSent : Len(t) >= 4 /\ Lower(t) \notin HybridStopWords

\* the keywords a route looks up one by one, and the limit of each lookup
LoopKeywords ==
    IF variant = "hybrid" THEN Take(Hybrid_Keywords(query), 5) ELSE Take(Rerank_Keywords(query), 4)

LoopLimit == IF variant = "hybrid" THEN 10 ELSE 8

C19_BadQuery400 ==
    (pc # "idle" /\ query \in {Missing, "", NonString}) =>
        pc = "done" /\ status = 400 /\ log = NoLog /\ finalResults = <<>>

C19_Witness == variant = "rerank" /\ query = NonString /\ status = 400

\* C20: when the request names a court other than 'all', every entry of the
\* returned results belongs to that court, whether the vector search or the
\* lexical search produced it.
C20_CourtFilter ==
    (Responded /\ court \notin {"null", "all"}) =>
        \A i \in 1..Len(finalResults) : CourtOf(finalResults[i].id) = court

-----------------------------------------------------------------------------
(* The case-detail route: GET /api/case?id=... *)

\* searchParams.get('id') of a URL without the parameter
NoId == "<null>"

CaseIds == {NoId, "", "1", "2", "7", "abc"}

\* the ids that are integers, and the integer each one is
NumericIds == {"1", "2", "7"}
IdNumber(id) == CASE id = "1" -> 1 [] id = "2" -> 2 [] id = "7" -> 7 [] OTHER -> 0

\* the rows of case_chunks: case 1 has three chunks, case 2 has one
ChunkRows ==
    {[case_id |-> 1, chunk_index |-> 0], [case_id |-> 1, chunk_index |-> 1],
     [case_id |-> 1, chunk_index |-> 2], [case_id |-> 2, chunk_index |-> 0]}

\* the orders the table can hold its rows in
Tables ==
    {t \in [1..Cardinality(ChunkRows) -> ChunkRows] : Range(t) = ChunkRows}

RECURSIVE RowsOfCase(_, _)
\* case_id=eq.<id>
RowsOfCase(table, n) ==
    IF table = <<>> THEN <<>>
    ELSE IF Head(table).case_id = n THEN <<Head(table)>> \o RowsOfCase(Tail(table), n)
    ELSE RowsOfCase(Tail(table), n)

RECURSIVE InsertAsc(_, _)
InsertAsc(sorted, row) ==
    IF sorted = <<>> THEN <<row>>
    ELSE IF row.chunk_index < Head(sorted).chunk_index THEN <<row>> \o sorted
    ELSE <<Head(sorted)>> \o InsertAsc(Tail(sorted), row)

RECURSIVE OrderByChunkIndex(_)
\* order=chunk_index.asc
OrderByChunkIndex(rows) ==
    IF rows = <<>> THEN <<>>
    ELSE InsertAsc(OrderByChunkIndex(SubSeq(rows, 1, Len(rows) - 1)), rows[Len(rows)])

\* the request without the order parameter
SelectChunks_Unordered(table, id) == RowsOfCase(table, IdNumber(id))

\* case_chunks?case_id=eq.<id>&order=chunk_index.asc&select=...
SelectChunks(table, id) == OrderByChunkIndex(RowsOfCase(table, IdNumber(id)))

\* what the store can do with the request: the fetch rejects, the store answers
\* with an error status (always so for an id that is no integer), the body of
\* an OK answer cannot be read, or the rows arrive
StoreOutcomes(id) ==
    IF id \in NumericIds THEN {"throws", "notOk", "badBody", "rows"} ELSE {"throws", "notOk"}

\* chunks.map(c => ({ index: c.chunk_index, ... }))
CaseResponseChunks(rows) == [i \in 1..Len(rows) |-> [index |-> rows[i].chunk_index]]

\* the request arrives; a missing id is answered at once
Case_Receive ==
    /\ casePc = "idle"
    /\ \E id \in CaseIds :
        /\ caseId' = id
        /\ IF id \in {NoId, ""}
           THEN casePc' = "done" /\ caseStatus' = 400
           ELSE casePc' = "fetch" /\ caseStatus' = 0
    /\ UNCHANGED <<caseChunks, caseTable, caseStore>>
    /\ UNCHANGED <<searchVars, pageVars>>

\* await fetch(...), await chunksResponse.json() and the rest of the handler
Case_Fetch ==
    /\ casePc = "fetch"
    /\ \E out \in StoreOutcomes(caseId) :
        /\ caseStore' = out
        /\ IF out # "rows"
           THEN caseStatus' = 500 /\ caseChunks' = <<>>
           ELSE LET chunks == SelectChunks(caseTable, caseId)
                IN  IF Len(chunks) = 0
                    THEN caseStatus' = 404 /\ caseChunks' = <<>>
                    ELSE caseStatus' = 200 /\ caseChunks' = CaseResponseChunks(chunks)
    /\ casePc' = "done"
    /\ UNCHANGED <<caseId, caseTable>>
    /\ UNCHANGED <<searchVars, pageVars>>

InitCase == SearchIdle /\ CaseIdle /\ caseTable \in Tables /\ PageIdle

NextCase ==
    \/ Case_Receive
    \/ Case_Fetch

SpecCase == InitCase /\ [][NextCase]_vars

\* C21: the case-detail route answers 400 when the id is missing, 500 when the
\* store call fails or throws, 404 when the store returns no chunk, and
\* otherwise 200 with all the chunks of the case in ascending chunk_index order
C21_CaseStatuses ==
    casePc = "done" =>
        /\ caseStatus \in {400, 404, 500, 200}
        /\ (caseStatus = 400) = (caseId \in {NoId, ""})
        /\ (caseStatus = 500) = (caseStore \in {"throws", "notOk", "badBody"})
        /\ (caseStatus = 404) =
              (caseStore = "rows" /\ RowsOfCase(caseTable, IdNumber(caseId)) = <<>>)
        /\ caseStatus = 200 =>
              /\ Len(caseChunks) = Len(RowsOfCase(caseTable, IdNumber(caseId)))
              /\ \A i \in 1..Len(caseChunks) - 1 :
                    caseChunks[i].index <= caseChunks[i + 1].index
        /\ caseStatus # 200 => caseChunks = <<>>

\* a case whose chunks are stored out of order is answered with 200
C21_Witness ==
    /\ casePc = "done" /\ caseStatus = 200 /\ Len(caseChunks) = 3
    /\ LET stored == RowsOfCase(caseTable, IdNumber(caseId))
       IN  stored[1].chunk_index > stored[2].chunk_index

-----------------------------------------------------------------------------
(* The selection of the multi-query route *)

RECURSIVE IsSubsequence(_, _)
\* a can be had from b by leaving entries out
IsSubsequence(a, b) ==
    IF a = <<>> THEN TRUE
    ELSE IF b = <<>> THEN FALSE
    ELSE IF Head(a) = Head(b) THEN IsSubsequence(Tail(a), Tail(b))
    ELSE IsSubsequence(a, Tail(b))

\* the positions of list at which fewer than 3 earlier entries are of the same case
WithinCaseQuota(list) ==
    {i \in 1..Len(list) :
        Cardinality({j \in 1..(i - 1) : CaseOf(list[j].id) = CaseOf(list[i].id)}) < 3}

\* the entries of list at the positions of S, in the order of list
AtPositions(list, S) ==
    LET pos == Ascending(S, Len(list)) IN [k \in 1..Len(pos) |-> list[pos[k]]]

\* C22: the selection is greedy and keeps the order: the results are a
\* subsequence of the ranked list, a candidate is left out only when 3
\* higher-ranked candidates of its case were emitted or 10 results were
\* emitted before it, and so a case contributes its highest-ranked passages,
\* at most 3 of them, whatever the scores of the passages it displaces.
C22_GreedySelection ==
    (variant = "multi" /\ Responded) =>
        /\ IsSubsequence(finalResults, allResults)
        /\ finalResults = Take(AtPositions(allResults, WithinCaseQuota(allResults)), 10)
        /\ \A c \in Cases :
              LET ofCase == AtPositions(allResults, {i \in 1..Len(allResults) : CaseOf(allResults[i].id) = c})
                  shown == AtPositions(finalResults, {i \in 1..Len(finalResults) : CaseOf(finalResults[i].id) = c})
              IN  /\ Len(shown) <= 3
                  /\ shown = Take(ofCase, Len(shown))
                  /\ (Len(finalResults) < 10 /\ Len(ofCase) >= 3) => Len(shown) = 3

\* a case with 5 ranked passages contributes its best 3, and a passage of it
\* that was left out outscores a result of another case
C22_Witness ==
    /\ variant = "multi" /\ Responded
    /\ \E c \in Cases :
        /\ CaseCount(allResults, c) = 5 /\ CaseCount(finalResults, c) = 3
        /\ \E i \in 1..Len(allResults), k \in 1..Len(finalResults) :
            /\ CaseOf(allResults[i].id) = c
            /\ \A m \in 1..Len(finalResults) : finalResults[m].id # allResults[i].id
            /\ CaseOf(finalResults[k].id) # c
            /\ RLess(finalResults[k].similarity, allResults[i].similarity)

-----------------------------------------------------------------------------
(* The order of the results *)

\* the keys of the list do not grow from one entry to the next
IsSortedByCombinedKey(list) ==
    \A i \in 1..Len(list) - 1 : RLeq(CombinedKey(list[i + 1]), CombinedKey(list[i]))

RerankRan == variant = "rerank" /\ log.rerank.kind = "scores"

EntryScore(r) == fused[FindIdx(fused, r.id)].similarity

\* 0.7 * relevanceScore + 0.3 * (score * 10), on the score at entry
EntryKey(r) == RAdd(RMul(EntryScore(r), 3, 1), 7 * r.relevanceScore, 10)

\* C24: after a successful rerank every result has a relevance score of at
\* least 4, and the results are in descending order of
\* 0.7 * relevanceScore + 0.3 * (score * 10), score being the similarity the
\* candidate had when it entered the rerank stage.
C24_RerankOrder ==
    (RerankRan /\ Responded) =>
        /\ \A i \in 1..Len(finalResults) : finalResults[i].relevanceScore >= 4
        /\ \A i \in 1..Len(finalResults) - 1 :
              RLeq(EntryKey(finalResults[i + 1]), EntryKey(finalResults[i]))

\* the part of C24 about the threshold
C24_Threshold ==
    (RerankRan /\ Responded) =>
        \A i \in 1..Len(finalResults) : finalResults[i].relevanceScore >= 4

-----------------------------------------------------------------------------
(* The keyword-presence boost of the hybrid route *)

\* how many distinct keywords of the query occur in the text of the chunk
DistinctKeywordMatches(id, keywords) == Cardinality(Range(keywords) \cap TextOf(id))

\* C25: the keyword-presence boost sets the score of a candidate to
\* min(0.99, score * (1 + 0.15 * m)), m being the number of distinct keywords
\* of the query that occur in its text: a keyword the query repeats counts once.
C25_DistinctKeywordBoost ==
    (variant = "hybrid" /\ Responded) =>
        \A i \in 1..Len(finalResults) :
            LET r == finalResults[i]
                m == DistinctKeywordMatches(r.id, Hybrid_Keywords(query))
            IN  \E j \in 1..Len(fused) :
                    /\ fused[j].id = r.id
                    /\ r.similarity = RMin(ScoreCap, RMul(fused[j].similarity, 20 + 3 * m, 20))

-----------------------------------------------------------------------------
(* The fallback of the query analysis *)

\* the analysis of the request is the one analyzeQuery builds without the model
OnFallbackPath ==
    /\ variant = "multi" /\ pc \notin {"idle", "analyze"} /\ ~QueryRejected(query)
    /\ queryAnalysis = analyzeQuery(query, [kind |-> "throw", parsed |-> <<>>])

\* the stop-words of the routes' keyword extraction
StopWords == HybridStopWords \cup {"cases"}

\* C26: on the fallback path the analysis has at most 5 keywords, each longer
\* than 4 characters and none a stop-word, its subQueries are the original
\* query alone, and its queryType is 'complex' exactly when the query has
\* more than 8 words.
C26_FallbackAnalysis ==
    OnFallbackPath =>
        /\ Len(queryAnalysis.keywords) <= 5
        /\ \A i \in 1..Len(queryAnalysis.keywords) :
              /\ Len(queryAnalysis.keywords[i]) > 4
              /\ queryAnalysis.keywords[i] \notin StopWords
        /\ queryAnalysis.subQueries = <<query>>
        /\ (queryAnalysis.queryType = "complex") = (Len(Words(query)) > 8)

\* the parts of C26 the fallback keeps: the cap, the length, the sub-query
C26_FallbackShape ==
    OnFallbackPath =>
        /\ Len(queryAnalysis.keywords) <= 5
        /\ \A i \in 1..Len(queryAnalysis.keywords) : Len(queryAnalysis.keywords[i]) > 4
        /\ queryAnalysis.subQueries = <<query>>

-----------------------------------------------------------------------------
(* The candidates of the rerank stage *)

\* how many candidates of the fused list came from the vector search
VectorCandidates == Cardinality({i \in 1..Len(fused) : fused[i].source = "semantic"})

\* C27: in the rerank route the fused list holds the vector candidates before
\* the lexical ones, only its first 15 entries reach the rerank stage, and the
\* results are among those 15 whether the scoring succeeded or failed: with
\* 15 or more vector candidates no lexical-only candidate is in the results.
C27_FirstFifteen ==
    (variant = "rerank" /\ Responded) =>
        /\ \A i, j \in 1..Len(fused) :
              (fused[i].source = "semantic" /\ fused[j].source = "keyword") => i < j
        /\ Len(allResults) <= 15
        /\ \A k \in 1..Len(finalResults) : HasId(SentToRerank, finalResults[k].id)
        /\ VectorCandidates >= 15 =>
              \A k \in 1..Len(finalResults) : finalResults[k].source = "semantic"

\* 15 vector candidates and a lexical-only one behind them, and results
C27_Witness ==
    /\ variant = "rerank" /\ Responded /\ finalResults # <<>>
    /\ VectorCandidates >= 15
    /\ \E i \in 1..Len(fused) : i > 15 /\ fused[i].source = "keyword"

-----------------------------------------------------------------------------
(* Score arrays of another length than the candidate list *)

\* the entry of the rerank's result for the candidate at position i of the
\* list that was sent, <<>> when it was dropped
RerankedAt(i) ==
    LET at == {j \in 1..Len(allResults) : allResults[j].id = SentToRerank[i].id}
    IN  IF at = {} THEN <<>> ELSE <<allResults[CHOOSE j \in at : TRUE]>>

\* C28: when the score array is shorter than the candidate list, a candidate
\* without a score gets relevance 5 and is kept; when it is longer, the scores
\* beyond the last candidate are ignored: every candidate is judged by the
\* score at its own position and nothing is added.
C28_ScoreArrayLength ==
    (RerankRan /\ Responded) =>
        /\ Len(allResults) <= Len(SentToRerank)
        /\ \A i \in 1..Len(SentToRerank) :
              IF i > Len(log.rerank.scores)
              THEN RerankedAt(i) # <<>> /\ RerankedAt(i)[1].relevanceScore = 5
              ELSE IF log.rerank.scores[i] >= 4
              THEN RerankedAt(i) # <<>> /\ RerankedAt(i)[1].relevanceScore = log.rerank.scores[i]
              ELSE RerankedAt(i) = <<>>
        /\ \A j \in 1..Len(allResults) : HasId(SentToRerank, allResults[j].id)

\* an array shorter than the list: a candidate without a score is in the results
C28_Witness ==
    /\ RerankRan /\ Responded
    /\ 0 < Len(log.rerank.scores) /\ Len(log.rerank.scores) < Len(SentToRerank)
    /\ \E k \in 1..Len(finalResults) : finalResults[k].relevanceScore = 5

\* an array longer than the list, with a high score beyond the last candidate
C28_WitnessLonger ==
    /\ RerankRan /\ Responded
    /\ Len(log.rerank.scores) > Len(SentToRerank)
    /\ log.rerank.scores[Len(SentToRerank) + 1] >= 4

-----------------------------------------------------------------------------
(* The lexical fallback of the basic route *)

\* the route has issued its lexical query
FallbackIssued == log.lexTerms # <<>>

\* the vector stage has given no result
NoVectorResults == log.mainRows = <<>>

\* the vector results as the response carries them
VectorResults == [i \in 1..Len(log.mainRows) |-> Cand(log.mainRows[i].id, log.mainRows[i].similarity, <<>>, "none")]

C29_WitnessNoKeywords ==
    /\ variant = "basic" /\ Responded /\ NoVectorResults /\ ~FallbackIssued

-----------------------------------------------------------------------------
(* The search page: handleSearch and the stored history *)

\* how many searches a run of the page starts
MaxSearches == 12

HistoryCap == 10

\* what the search box can hold
PageInputs == {"", "   ", " duty "}

\* query.trim()
Trim(q) == CASE q = " duty " -> "duty" [] q = "   " -> "" [] OTHER -> q

\* what a call of /api/search can give: the fetch rejects, the status is not
\* OK, the body is no JSON, the body has no results, the body has results, and
\* the body has results but localStorage refuses the write
SearchOutcomes == {"throw", "notOk", "badJson", "noResults", "ok", "okStoreFull"}

\* data.results.length
ResultCount == 3

\* the history without the cut of the old entries
saveToHistory_Uncut(history, q, count, now) ==
    <<[query |-> q, timestamp |-> now, resultCount |-> count]>> \o history

\* [newItem, ...searchHistory.slice(0, 9)]
saveToHistory(history, q, count, now) ==
    <<[query |-> q, timestamp |-> now, resultCount |-> count]>> \o Take(history, HistoryCap - 1)

\* onChange of the input, an example chip, a history item
Page_SetQuery ==
    /\ \E q \in PageInputs \cup {searchHistory[i].query : i \in 1..Len(searchHistory)} :
          pageQuery' = q
    /\ pageQuery' # pageQuery
    /\ UNCHANGED <<pagePc, fetched, loading, error, searchHistory, localStore, clock, pending>>
    /\ UNCHANGED <<searchVars, caseVars>>

\* the form is submitted, which the page allows while it is not loading:
\* handleSearch up to its await
Page_Submit ==
    /\ pagePc = "idle" /\ ~loading
    /\ clock < MaxSearches
    /\ IF Trim(pageQuery) = ""
       THEN UNCHANGED <<pagePc, loading, error, clock, pending>>
       ELSE /\ pagePc' = "fetch"
            /\ loading' = TRUE
            /\ error' = "null"
            /\ clock' = clock + 1
            /\ pending' = [query |-> Trim(pageQuery), searchHistory |-> searchHistory]
    /\ UNCHANGED <<fetched, pageQuery, searchHistory, localStore>>
    /\ UNCHANGED <<searchVars, caseVars>>

\* the rest of handleSearch: the response, saveToHistory, catch and finally
Page_Response ==
    /\ pagePc = "fetch"
    /\ \E out \in SearchOutcomes :
        /\ fetched' = out
        /\ LET updated == saveToHistory(pending.searchHistory, pending.query, ResultCount, clock)
           IN  CASE out = "ok" ->
                      /\ searchHistory' = updated /\ localStore' = updated
                      /\ UNCHANGED error
                 [] out = "okStoreFull" ->
                      /\ searchHistory' = updated /\ UNCHANGED localStore
                      /\ error' = "Search failed. Please try again."
                 [] OTHER ->
                      /\ UNCHANGED <<searchHistory, localStore>>
                      /\ error' = "Search failed. Please try again."
    /\ loading' = FALSE
    /\ pagePc' = "idle"
    /\ UNCHANGED <<pageQuery, clock, pending>>
    /\ UNCHANGED <<searchVars, caseVars>>

InitPage == SearchIdle /\ CaseIdle /\ caseTable = <<>> /\ PageIdle

NextPage ==
    \/ Page_SetQuery
    \/ Page_Submit
    \/ Page_Response

SpecPage == InitPage /\ [][NextPage]_vars

\* the entries are in the order of their time, the latest first
MostRecentFirst(history) ==
    \A i \in 1..Len(history) - 1 : history[i].timestamp > history[i + 1].timestamp

\* C30: the stored history holds at most 10 entries, the most recent first;
\* an entry is stored only by a search whose response was OK; and whenever no
\* search is running the loading flag is false, after a search that succeeded
\* as after one that failed.
C30_History ==
    /\ Len(localStore) <= 10 /\ Len(searchHistory) <= 10
    /\ MostRecentFirst(localStore) /\ MostRecentFirst(searchHistory)
    /\ \A i \in 1..Len(localStore) : localStore[i].query # ""
    /\ (localStore # <<>> /\ localStore[1].timestamp = clock /\ pagePc = "idle") => fetched = "ok"
    /\ (searchHistory # <<>> /\ searchHistory[1].timestamp = clock /\ pagePc = "idle")
          => fetched \in {"ok", "okStoreFull"}
    /\ pagePc = "idle" => ~loading
    /\ pagePc = "fetch" => loading

\* the eleventh successful search has pushed the oldest entry out, and a
\* failed search after it has left the history alone
C30_Witness ==
    /\ pagePc = "idle" /\ ~loading /\ fetched = "notOk"
    /\ Len(localStore) = 10 /\ localStore[10].timestamp > 1
====
